---- MODULE Spec2Model ----
(***************************************************************************)
(* The Experience class of src/main.js (and its sibling revision in        *)
(* src/unnamed/part_000): construction at DOMContentLoaded, the per-line   *)
(* opacity lifecycle driven by chained GSAP tweens, the debounced resize   *)
(* handler, the mousemove and scroll handlers and the render loop.         *)
(*                                                                         *)
(* Opacities are in thousandths (0.7 is 700), times in milliseconds.       *)
(* GSAP advances every tween of a family by the time of one ticker frame.  *)
(***************************************************************************)
EXTENDS Integers, Sequences, FiniteSets, TLC

\* ---------------------------------------------------------------- bounds
\* number of decorative lines in the model (the page uses 10)
lineCount == 2
\* ticker frames per 2.5 s fade: the frame time is FadeMs \div FadeSteps
FadeSteps == 2

\* timer queue steps per 300 ms debounce wait: the step is DebounceMs \div TimerSteps
TimerSteps == 3
\* project cards of the largest document
MaxCards == 2
\* scroll-started transforms in flight on one card before scrolling is no longer modelled
MaxInflight == 2
\* frames rendered before rendering is no longer modelled
MaxFrames == 2

\* largest bounding-box coordinate isInMiddleZone is evaluated on
MaxY == 8

\* number of .section elements of the page
MaxSections == 2

\* largest lineCount setupLines is run with when its geometry is checked
MaxLineCount == 10

\* ------------------------------------------------------ program constants
\* opacity: 0.7 of the fade-in tween and of setupAnimations, in thousandths
VisibleOpacity == 700
\* opacity: 0 of the fade-out tween
HiddenOpacity == 0
\* opacity set by setupAnimations on every line with index < lineCount
InitialOpacity_high == VisibleOpacity + 300
InitialOpacity == 700
\* duration: 2.5 of both lifecycle tweens, in ms
FadeMs == 2500
\* delay: index * 0.5, in ms per index
StaggerMs == 500

\* this.perspective = 1000
perspective == 1000
\* debounce(this.onResize.bind(this), 300), in ms
DebounceMs == 300
\* setPixelRatio(Math.min(window.devicePixelRatio, 2))
MaxPixelRatio == 2
\* duration: 1 of the mousemove tween, in ms
MouseTweenMs == 1000

\* const segmentCount = 30
segmentCount == 30
\* Math.PI, in ten-thousandths
Pi == 31416
\* Math.random() * 100: samples of [0, 100)
RandomDraws == {0, 99}

\* Math.random() * 5, in ms: samples of [0, 5000)
HoldDraws == {0, 2300}
\* lifecycleDuration = 5 + Math.random() * 5, in ms
lifecycleDuration_short(r) == r
lifecycleDuration(r) == 5000 + r
HoldChoices == {lifecycleDuration(r) : r \in HoldDraws}

FrameMs == FadeMs \div FadeSteps
TimerMs == DebounceMs \div TimerSteps
Lines == 0 .. (lineCount - 1)

\* window.innerWidth, window.innerHeight, window.devicePixelRatio
WindowSizes == {[w |-> 800, h |-> 600, dpr |-> 1],
                [w |-> 1200, h |-> 600, dpr |-> 3],
                [w |-> 1200, h |-> 900, dpr |-> 2]}

InitialWindow == [w |-> 800, h |-> 600, dpr |-> 1]

\* the documents the page is loaded with: is there a canvas #webgl, a
\* .header-content, how many .project-card elements, the index of the first
\* card without a .project-title descendant and the index of the first card
\* without a .project-content descendant (None: every card has one)
None == 0 - 1
Documents == {d \in [canvas : BOOLEAN, hero : BOOLEAN, cards : 0 .. MaxCards,
                     broken : None .. (MaxCards - 1), content : None .. (MaxCards - 1)] :
                d.broken < d.cards /\ d.content < d.cards}

VARIABLES
    doc,          \* the document the page is loaded with
    window,       \* innerWidth, innerHeight, devicePixelRatio
    loaded,       \* the DOMContentLoaded handler has run
    container,    \* this.container is an element
    errorLog,     \* console.error calls and uncaught errors so far
    scene,        \* this.scene exists
    camera,       \* this.camera: fov and aspect, or None
    renderer,     \* this.renderer: size and pixel ratio, or None
    listeners,    \* the window events Experience listens to
    children,     \* this.lines.children: the line indices in the group
    spinning,     \* the lines with an endless tween of line.rotation (setupLines)
    tween,        \* per line: the pending lifecycle tween on line.material
    hold,         \* per line: lifecycleDuration of the running animateLineLifecycle call
    opacity,      \* per line: line.material.opacity
    cycle,        \* per line: 0 no call yet, 1 first call, 2 a restarted call
    cycleStart,   \* per line: material opacity at the latest animateLineLifecycle call
    pending,      \* per line: the lifecycle tweens created on its material and not completed
    resizeTimeout,\* the debounce closure's timeout: ms until it fires, or None
    sinceResize,  \* ms since the latest resize event, up to DebounceMs
    resizeCalls,  \* onResize calls since the latest resize event
    rotation,     \* this.lines.rotation: <<x, y>> in thousandths
    rotTween,     \* the latest mousemove tween on this.lines.rotation, or None
    rafPending,   \* pending requestAnimationFrame(render) callbacks
    frames,       \* frames rendered
    heroHandler,  \* the hero scroll handler is registered on lenis
    heroTween,    \* target of the latest tween on the Line objects' opacity, or None
    lineProp,     \* the opacity property of the Line objects (not the material), or None
    cardHandlers, \* the cards whose scroll handler is registered
    animating,    \* per card: card.animating
    inflight,     \* per card: the scroll-started tweens still running, oldest first
    pose,         \* per card: x, opacity, scale as last set or completed, or None
    completed,    \* per card: the kinds of the last two scroll tweens that completed
    sectionHandlers, \* the .section elements whose scroll callback is registered
    visible,      \* the .section elements with the class 'visible'
    sectionRect,  \* per section: the bounding box its callback read last
    sectionH,     \* window.innerHeight as the section callbacks read it last, or None
    geoN,         \* setupLines: this.lineCount of the run
    geoI,         \* setupLines: the line index i of the outer loop
    geoJ,         \* setupLines: the segment index j of the inner loop
    geoDraws,     \* setupLines: the values Math.random() returns in pass i, in call order
    geoRadius,    \* setupLines: the radius drawn for line i
    geoPhi,       \* setupLines: per line, the phi computed for it, or None
    geoPoints,    \* setupLines: the points pushed for line i so far
    geoDraws2,    \* a second run of setupLines on the same lineCount: its Math.random() values,
    geoRadius2,   \*   its radius
    geoPoints2,   \*   and its points
    zoneRect,     \* the bounding box the card scroll handler last read
    zoneH,        \* the window.innerHeight it read
    zoneResult    \* the isInMiddleZone it computed, as <<value>>; <<>> before the first run

lifecycleVars == <<tween, hold, opacity, cycle, cycleStart, pending>>
sceneVars == <<loaded, container, errorLog, scene, camera, renderer, listeners, children,
               spinning,
               heroHandler, cardHandlers>>
resizeVars == <<resizeTimeout, sinceResize, resizeCalls>>
rotationVars == <<rotation, rotTween>>
renderVars == <<rafPending, frames>>
heroVars == <<heroTween, lineProp>>
cardVars == <<animating, inflight, pose, completed>>
geoVars == <<geoN, geoI, geoJ, geoDraws, geoRadius, geoPhi, geoPoints,
             geoDraws2, geoRadius2, geoPoints2>>
zoneVars == <<zoneRect, zoneH, zoneResult>>
sectionVars == <<sectionHandlers, visible, sectionRect, sectionH>>

vars == <<doc, window, sceneVars, lifecycleVars, resizeVars, rotationVars, renderVars,
          heroVars, cardVars, geoVars, zoneVars, sectionVars>>

NoTween == [kind |-> "none", delay |-> 0, t |-> 0, from |-> 0]
\* this.camera, this.renderer, the mousemove tween and a card's style before they exist
NoCamera == [fov |-> None, aspect |-> None]
NoRenderer == [w |-> None, h |-> None, ratio |-> None]
NoRotTween == [to |-> <<0, 0>>, t |-> None, from |-> <<0, 0>>]
NoPose == [x |-> 0, opacity |-> None, scale |-> None]

\* ------------------------------------------------------------------ GSAP
\* ease 'power2.out' on a progress in thousandths: 1 - (1 - p)^3
Power2Out_back(p) == p + ((4 * p * (1000 - p)) \div 1000)
Power2Out(p) == 1000 - (((1000 - p) * (1000 - p) * (1000 - p)) \div 1000000)

\* GSAP's default ease 'power1.out': 1 - (1 - p)^2
Power1Out(p) == 1000 - (((1000 - p) * (1000 - p)) \div 1000)

\* the value a tween renders at eased progress e (thousandths)
Interpolate(from, to, e) ==
    IF to >= from THEN from + (((to - from) * e) \div 1000)
                  ELSE from - (((from - to) * e) \div 1000)

Min(a, b) == IF a <= b THEN a ELSE b

\* the target of a lifecycle tween
TweenTarget_dim(kind) == IF kind = "in" THEN VisibleOpacity ELSE 100
TweenTarget(kind) == IF kind = "in" THEN VisibleOpacity ELSE HiddenOpacity

\* gsap.to(line.material, {opacity, duration: 2.5, delay, ease: 'power2.out'})
\* the start value is read when the tween starts, after its delay
NewTween(kind, delay, op) == [kind |-> kind, delay |-> delay, t |-> 0, from |-> op]

\* animateLineLifecycle(line, index): the fade-in tween it creates
animateLineLifecycle_noStagger(index, op) == NewTween("in", 0, op)
animateLineLifecycle(index, op) == NewTween("in", index * StaggerMs, op)

\* onComplete of the fade-in tween: the fade-out tween, delayed by lifecycleDuration
FadeInComplete_noHold(index, h, op) == NewTween("out", 0, op)
FadeInComplete(index, h, op) == NewTween("out", h, op)

\* does the fade-out's onComplete call animateLineLifecycle again
RestartsAfterFadeOut_once(c) == c < 2
RestartsAfterFadeOut(c) == TRUE

\* one ticker frame of dt ms on line i's lifecycle tween; draw is the
\* lifecycleDuration the restarted call would draw
LineFrame(i, dt, draw) ==
    LET tw == tween[i] IN
    IF tw.kind = "none" THEN
        [tween |-> tw, hold |-> hold[i], opacity |-> opacity[i],
         cycle |-> cycle[i], cycleStart |-> cycleStart[i], pending |-> pending[i]]
    ELSE IF tw.delay > dt THEN
        [tween |-> [tw EXCEPT !.delay = tw.delay - dt], hold |-> hold[i],
         opacity |-> opacity[i], cycle |-> cycle[i], cycleStart |-> cycleStart[i],
         pending |-> pending[i]]
    ELSE
        LET from == IF tw.delay > 0 THEN opacity[i] ELSE tw.from
            t    == Min(tw.t + (dt - tw.delay), FadeMs)
            op   == Interpolate(from, TweenTarget(tw.kind),
                                Power2Out((t * 1000) \div FadeMs))
        IN  IF t < FadeMs THEN
                [tween |-> [tw EXCEPT !.delay = 0, !.t = t, !.from = from],
                 hold |-> hold[i], opacity |-> op, cycle |-> cycle[i],
                 cycleStart |-> cycleStart[i], pending |-> pending[i]]
            ELSE IF tw.kind = "in" THEN
                \* the fade-in is done and its onComplete creates the fade-out
                [tween |-> FadeInComplete(i, hold[i], op), hold |-> hold[i],
                 opacity |-> op, cycle |-> cycle[i], cycleStart |-> cycleStart[i],
                 pending |-> (pending[i] - 1) + 1]
            ELSE IF RestartsAfterFadeOut(cycle[i]) THEN
                \* the fade-out is done and its onComplete calls animateLineLifecycle
                [tween |-> animateLineLifecycle(i, op), hold |-> draw,
                 opacity |-> op, cycle |-> 2, cycleStart |-> op,
                 pending |-> (pending[i] - 1) + 1]
            ELSE
                [tween |-> NoTween, hold |-> hold[i], opacity |-> op,
                 cycle |-> cycle[i], cycleStart |-> cycleStart[i],
                 pending |-> pending[i] - 1]

\* the lifecycle phase of line i
Phase(i) ==
    IF tween[i].kind = "none" THEN "None"
    ELSE IF tween[i].kind = "in" THEN "FadingIn"
    ELSE IF tween[i].delay > 0 THEN "Holding"
    ELSE "FadingOut"


\* ---------------------------------------------------------------- camera
\* fixed-point product, both factors in ten-thousandths
Mul(a, b) == (a * b) \div 10000

\* Math.atan on [0, 1], argument and result in ten-thousandths
Atan(x) ==
    LET x2 == Mul(x, x)
        x3 == Mul(x2, x)
        x5 == Mul(x3, x2)
        x7 == Mul(x5, x2)
        x9 == Mul(x7, x2)
    IN  x - (x3 \div 3) + (x5 \div 5) - (x7 \div 7) + (x9 \div 9)

\* (180 * (2 * Math.atan(innerHeight / 2 / perspective))) / Math.PI, in hundredths of a degree
Fov(h) == (180 * (2 * Atan((h * 10000) \div (2 * perspective))) * 100) \div Pi

\* innerWidth / innerHeight, in thousandths
Aspect(win) == (win.w * 1000) \div win.h

\* setupCamera: new THREE.PerspectiveCamera(fov, innerWidth / innerHeight, 1, 1000)
setupCamera(win) == [fov |-> Fov(win.h), aspect |-> Aspect(win)]

\* setupRenderer: setSize(innerWidth, innerHeight), setPixelRatio(min(dpr, 2))
setupRenderer(win) == [w |-> win.w, h |-> win.h, ratio |-> Min(win.dpr, MaxPixelRatio)]

\* onResize: the camera it leaves
onResizeCamera_keepFov(cam, win) == [fov |-> cam.fov, aspect |-> Aspect(win)]
onResizeCamera(cam, win) == [fov |-> Fov(win.h), aspect |-> Aspect(win)]

\* onResize: the renderer it leaves
onResizeRenderer(rend, win) == [w |-> win.w, h |-> win.h, ratio |-> Min(win.dpr, MaxPixelRatio)]

\* the function debounce returns, called while its timeout is `timeout`:
\* clearTimeout(timeout); timeout = setTimeout(..., wait)
debounce_keepTimer(timeout, wait) == IF timeout # None THEN timeout ELSE wait
debounce(timeout, wait) == wait

\* the constructor returns early when the canvas is missing
ConstructorReturns_never(canvas) == FALSE
ConstructorReturns(canvas) == ~canvas

\* ----------------------------------------------------------------- cards
Cards == 0 .. (MaxCards - 1)

\* gsap.set(card, {x: index % 2 === 0 ? -100 : 100, opacity: 0, scale: 0.8}), with
\* opacity and scale in hundredths
InitialPose(index) == [x |-> IF index % 2 = 0 THEN 0 - 100 ELSE 100, opacity |-> 0, scale |-> 80]

\* the hide tween: x: index % 2 === 0 ? -100 : 100, opacity: 0, scale: 0.8
HiddenPose_mirrored(index) ==
    [x |-> IF index % 2 = 0 THEN 100 ELSE 0 - 100, opacity |-> 0, scale |-> 80]
HiddenPose(index) == [x |-> IF index % 2 = 0 THEN 0 - 100 ELSE 100, opacity |-> 0, scale |-> 80]

\* the reveal tween: x: 0, opacity: 1, scale: 1
RevealedPose(index) == [x |-> 0, opacity |-> 100, scale |-> 100]

\* the last two entries of a sequence
LastTwo(s) == IF Len(s) > 2 THEN Tail(s) ELSE s

TweenPose(kind, index) == IF kind = "reveal" THEN RevealedPose(index) ELSE HiddenPose(index)

\* isInMiddleZone of the card scroll handler, for the bounding box rect and innerHeight h
\* (x <= h * 2 / 3 is 3 * x <= 2 * h, x >= h / 3 is 3 * x >= h)
isInMiddleZone_noCover(rect, h) ==
    LET cardTopInMiddle == 3 * rect.top <= 2 * h /\ 3 * rect.top >= h
        cardBottomInMiddle == 3 * rect.bottom <= 2 * h /\ 3 * rect.bottom >= h
    IN  cardTopInMiddle \/ cardBottomInMiddle
isInMiddleZone(rect, h) ==
    LET cardTopInMiddle == 3 * rect.top <= 2 * h /\ 3 * rect.top >= h
        cardBottomInMiddle == 3 * rect.bottom <= 2 * h /\ 3 * rect.bottom >= h
        cardCoversMiddle == 3 * rect.top <= h /\ 3 * rect.bottom >= 2 * h
    IN  cardTopInMiddle \/ cardBottomInMiddle \/ cardCoversMiddle

\* the card scroll handler returns at once while card.animating is set
CardHandlerSkips(flag) == flag

\* bounding boxes a scroll notification may find
Ys == {0 - 100, 250, 450, 1000}
Rects == {r \in [top : Ys, bottom : Ys] : r.top <= r.bottom}
\* bounding boxes of .header-content: in view, just above the viewport, below it
HeroRects == {[top |-> 0, bottom |-> 500], [top |-> 0 - 500, bottom |-> 0],
              [top |-> 1000, bottom |-> 1500]}

\* the .section elements of the page
Sections == 0 .. (MaxSections - 1)

\* bounding boxes a section's scroll callback may find: above the viewport, at
\* its top edge, and around 0.8 * innerHeight for the heights of WindowSizes
SectionYs == {0 - 50, 0, 479, 480, 720}
SectionRects == {r \in [top : SectionYs, bottom : SectionYs] : r.top <= r.bottom}

\* rect.top < window.innerHeight * 0.8 && rect.bottom > 0
\* (x < h * 0.8 is 10 * x < 8 * h)
SectionInView_anyBottom(rect, h) == 10 * rect.top < 8 * h
SectionInView(rect, h) == 10 * rect.top < 8 * h /\ rect.bottom > 0

\* ------------------------------------------------------------------ Init
ProgramInit ==
    /\ doc \in Documents
    /\ window = InitialWindow
    /\ loaded = FALSE
    /\ container = FALSE
    /\ errorLog = <<>>
    /\ scene = FALSE
    /\ camera = NoCamera
    /\ renderer = NoRenderer
    /\ listeners = {}
    /\ children = {}
    /\ spinning = {}
    /\ tween = [i \in Lines |-> NoTween]
    /\ hold = [i \in Lines |-> 0]
    /\ opacity = [i \in Lines |-> 0]
    /\ cycle = [i \in Lines |-> 0]
    /\ cycleStart = [i \in Lines |-> 0]
    /\ pending = [i \in Lines |-> 0]
    /\ resizeTimeout = None
    /\ sinceResize = DebounceMs
    /\ resizeCalls = 0
    /\ rotation = <<0, 0>>
    /\ rotTween = NoRotTween
    /\ rafPending = 0
    /\ frames = 0
    /\ heroHandler = FALSE
    /\ heroTween = None
    /\ lineProp = None
    /\ cardHandlers = {}
    /\ animating = [c \in Cards |-> FALSE]
    /\ inflight = [c \in Cards |-> <<>>]
    /\ pose = [c \in Cards |-> NoPose]
    /\ completed = [c \in Cards |-> <<>>]
    /\ zoneRect = [top |-> 0, bottom |-> 0]
    /\ zoneH = InitialWindow.h
    /\ zoneResult = <<>>
    /\ sectionHandlers = {}
    /\ visible = {}
    /\ sectionRect = [s \in Sections |-> [top |-> 0, bottom |-> 0]]
    /\ sectionH = None

\* setupLines has not run
Init ==
    /\ ProgramInit
    /\ geoN = 0 /\ geoI = 0 /\ geoJ = 0
    /\ geoDraws = <<>> /\ geoRadius = 0
    /\ geoPhi = [i \in 0 .. (MaxLineCount - 1) |-> None]
    /\ geoPoints = <<>>
    /\ geoDraws2 = <<>> /\ geoRadius2 = 0 /\ geoPoints2 = <<>>

\* --------------------------------------------------------------- actions
\* the animateLineLifecycle calls setupAnimations makes for the line of this
\* index: the forEach over this.lines.children calls it once after either
\* branch of the if; each call creates one tween, the fade-in
LifecycleCalls_again(index) == 2
LifecycleCalls(index) == 1

\* setupAnimations: every line with index < lineCount gets opacity 0.7, then
\* animateLineLifecycle(line, index) draws its lifecycleDuration and starts the fade-in
setupAnimations(draws) ==
    /\ pending' = [i \in Lines |-> LifecycleCalls(i)]
    /\ hold' = draws
    /\ opacity' = [i \in Lines |-> InitialOpacity]
    /\ tween' = [i \in Lines |-> animateLineLifecycle(i, InitialOpacity)]
    /\ cycle' = [i \in Lines |-> 1]
    /\ cycleStart' = [i \in Lines |-> InitialOpacity]

\* the forEach body of setupScrollAnimations throws on card c:
\* card.querySelector('.project-title').textContent reads a property of null
\* when the card has no .project-title; card.insertBefore(img, content) with
\* content null, for a card without .project-content, appends the image
CardThrows_content(d, c) == c = d.broken \/ c = d.content
CardThrows(d, c) == c = d.broken

\* a step of the constructor after the canvas check throws
SetupThrows == \E c \in 0 .. (doc.cards - 1) : CardThrows(doc, c)

\* the cards setupScrollAnimations finishes before it throws, or all of them
CardsSetUp == {c \in Cards : c < doc.cards /\ \A b \in 0 .. c : ~CardThrows(doc, b)}

\* if (!this.container) console.error('Canvas element with id "webgl" not found.')
CanvasLog == IF doc.canvas THEN errorLog ELSE Append(errorLog, "canvas not found")

\* the DOMContentLoaded handler: new Experience() in a try/catch
DOMContentLoaded ==
    /\ ~loaded
    /\ loaded' = TRUE
    /\ container' = doc.canvas
    /\ IF ConstructorReturns(doc.canvas) THEN
            /\ errorLog' = CanvasLog
            /\ UNCHANGED <<scene, camera, renderer, listeners, children, spinning, heroHandler,
                           cardHandlers, lifecycleVars, rotation, renderVars, pose,
                           sectionHandlers>>
       ELSE
            /\ scene' = TRUE
            /\ camera' = setupCamera(window)
            /\ renderer' = setupRenderer(window)
            /\ children' = Lines
            /\ spinning' = Lines
            /\ listeners' = {"resize", "mousemove"}
            /\ \E draws \in [Lines -> HoldChoices] : setupAnimations(draws)
            /\ heroHandler' = TRUE
            /\ sectionHandlers' = Sections
            /\ cardHandlers' = CardsSetUp
            /\ pose' = [c \in Cards |-> IF c \in CardsSetUp THEN InitialPose(c) ELSE NoPose]
            /\ IF SetupThrows THEN
                    /\ errorLog' = Append(CanvasLog, "failed to initialize")
                    /\ UNCHANGED <<rotation, renderVars>>
               ELSE
                    /\ errorLog' = CanvasLog
                    /\ rotation' = <<rotation[1] + 1, rotation[2] + 1>>
                    /\ frames' = frames + 1
                    /\ rafPending' = rafPending + 1
    /\ UNCHANGED <<doc, window, resizeVars, rotTween, heroVars, animating, inflight,
                   completed>>
    /\ UNCHANGED <<geoVars, zoneVars, visible, sectionRect, sectionH>>

\* one GSAP ticker frame on the lifecycle tweens of all lines
LifecycleTick ==
    /\ children # {}
    /\ \E draws \in [Lines -> HoldChoices] :
        LET f == [i \in Lines |-> LineFrame(i, FrameMs, draws[i])] IN
        /\ tween' = [i \in Lines |-> f[i].tween]
        /\ hold' = [i \in Lines |-> f[i].hold]
        /\ opacity' = [i \in Lines |-> f[i].opacity]
        /\ cycle' = [i \in Lines |-> f[i].cycle]
        /\ cycleStart' = [i \in Lines |-> f[i].cycleStart]
        /\ pending' = [i \in Lines |-> f[i].pending]
    /\ UNCHANGED <<doc, window, sceneVars, resizeVars, rotationVars, renderVars,
                   heroVars, cardVars>>
    /\ UNCHANGED <<geoVars, zoneVars, sectionVars>>

\* a resize event: the window takes a new size and the debounced listener runs
Resize ==
    /\ loaded
    /\ \E win \in WindowSizes : window' = win
    /\ sinceResize' = 0
    /\ resizeCalls' = 0
    /\ resizeTimeout' = IF "resize" \in listeners THEN debounce(resizeTimeout, DebounceMs)
                        ELSE resizeTimeout
    /\ UNCHANGED <<doc, sceneVars, lifecycleVars, rotationVars, renderVars, heroVars,
                   cardVars>>
    /\ UNCHANGED <<geoVars, zoneVars, sectionVars>>

\* TimerMs pass on the timer queue; a timer that is due fires first
TimerTick ==
    /\ loaded
    /\ resizeTimeout # 0
    /\ resizeTimeout > 0 \/ sinceResize < DebounceMs
    /\ resizeTimeout' = IF resizeTimeout = None THEN None
                        ELSE IF resizeTimeout > TimerMs THEN resizeTimeout - TimerMs ELSE 0
    /\ sinceResize' = Min(sinceResize + TimerMs, DebounceMs)
    /\ UNCHANGED <<doc, window, sceneVars, lifecycleVars, resizeCalls, rotationVars,
                   renderVars, heroVars, cardVars>>
    /\ UNCHANGED <<geoVars, zoneVars, sectionVars>>

\* the debounce timer fires: func.apply(this, args), which is onResize
onResize ==
    /\ resizeTimeout = 0
    /\ resizeTimeout' = None
    /\ resizeCalls' = resizeCalls + 1
    /\ IF camera = NoCamera \/ renderer = NoRenderer THEN
            /\ errorLog' = Append(errorLog, "TypeError")
            /\ UNCHANGED <<camera, renderer>>
       ELSE
            /\ camera' = onResizeCamera(camera, window)
            /\ renderer' = onResizeRenderer(renderer, window)
            /\ UNCHANGED errorLog
    /\ UNCHANGED <<doc, window, loaded, container, scene, listeners, children, spinning,
                   heroHandler,
                   cardHandlers, lifecycleVars, sinceResize, rotationVars, renderVars,
                   heroVars, cardVars>>
    /\ UNCHANGED <<geoVars, zoneVars, sectionVars>>

\* pointer positions of a mousemove event, as clientX / (innerWidth / 2) and
\* clientY / (innerHeight / 2): the top left and the bottom right corner
MousePositions == {<<0, 0>>, <<2, 2>>}

\* the mousemove listener: mouseX = clientX / innerWidth * 2 - 1, mouseY =
\* -(clientY / innerHeight) * 2 + 1, and a tween of this.lines.rotation to
\* x: mouseY * 0.1, y: mouseX * 0.1 (thousandths) over 1 s
MouseMove ==
    /\ loaded
    /\ \E m \in MousePositions :
        LET mouseX == m[1] - 1
            mouseY == 1 - m[2]
        IN  rotTween' = IF "mousemove" \in listeners /\ children # {}
                        THEN [to |-> <<mouseY * 100, mouseX * 100>>, t |-> 0, from |-> rotation]
                        ELSE rotTween
    /\ UNCHANGED <<doc, window, sceneVars, lifecycleVars, resizeVars, rotation, renderVars,
                   heroVars, cardVars>>
    /\ UNCHANGED <<geoVars, zoneVars, sectionVars>>

\* one GSAP ticker frame on the mousemove tween
RotationTick ==
    /\ rotTween # NoRotTween
    /\ LET from == IF rotTween.t = 0 THEN rotation ELSE rotTween.from
           t    == Min(rotTween.t + FrameMs, MouseTweenMs)
           e    == Power1Out((t * 1000) \div MouseTweenMs)
       IN  /\ rotation' = <<Interpolate(from[1], rotTween.to[1], e),
                            Interpolate(from[2], rotTween.to[2], e)>>
           /\ rotTween' = IF t < MouseTweenMs
                          THEN [rotTween EXCEPT !.t = t, !.from = from] ELSE NoRotTween
    /\ UNCHANGED <<doc, window, sceneVars, lifecycleVars, resizeVars, renderVars, heroVars,
                   cardVars>>
    /\ UNCHANGED <<geoVars, zoneVars, sectionVars>>

\* requestAnimationFrame calls made by one render()
RenderSchedules_twice == 1 + 1
RenderSchedules == 1

\* a requestAnimationFrame callback: render()
render ==
    /\ rafPending > 0
    /\ frames < MaxFrames
    /\ rotation' = IF children # {} THEN <<rotation[1] + 1, rotation[2] + 1>> ELSE rotation
    /\ errorLog' = IF renderer = NoRenderer \/ camera = NoCamera THEN Append(errorLog, "TypeError")
                   ELSE errorLog
    /\ rafPending' = (rafPending - 1) + RenderSchedules
    /\ frames' = frames + 1
    /\ UNCHANGED <<doc, window, loaded, container, scene, camera, renderer, listeners,
                   children, spinning, heroHandler, cardHandlers, lifecycleVars, resizeVars,
                   rotTween,
                   heroVars, cardVars>>
    /\ UNCHANGED <<geoVars, zoneVars, sectionVars>>

\* the hero scroll handler: the opacity target of the tween it starts on
\* this.lines.children, for the bounding box of .header-content
HeroTarget(rect) ==
    IF ~(heroHandler /\ doc.hero /\ children # {}) THEN heroTween
    ELSE IF rect.bottom <= 0 THEN HiddenOpacity
    ELSE IF rect.top < window.h THEN VisibleOpacity
    ELSE heroTween

\* the card scroll handler: the tween it starts on card c with bounding box rect
CardTween(c, rect) == IF isInMiddleZone(rect, window.h) THEN "reveal" ELSE "hide"

\* a lenis scroll notification: every registered scroll handler runs
Scroll ==
    /\ loaded
    /\ \A c \in cardHandlers : Len(inflight[c]) < MaxInflight
    /\ \E hero \in HeroRects : heroTween' = HeroTarget(hero)
    /\ \E rects \in [cardHandlers -> Rects] :
        inflight' = [c \in Cards |->
                        IF c \in cardHandlers /\ ~CardHandlerSkips(animating[c])
                        THEN Append(inflight[c], CardTween(c, rects[c]))
                        ELSE inflight[c]]
    /\ UNCHANGED <<doc, window, sceneVars, lifecycleVars, resizeVars, rotationVars,
                   renderVars, lineProp, animating, pose, completed>>
    /\ UNCHANGED <<geoVars, zoneVars, sectionVars>>

\* the material opacity of a line after the hero tween has written target: the
\* tween's targets are this.lines.children, the Line objects, and it writes
\* their own opacity property, so the material keeps its opacity
HeroTweenMaterial_written(op, target) == target
HeroTweenMaterial(op, target) == op

\* GSAP runs the hero tween: it writes the opacity property of the Line objects
HeroTick ==
    /\ heroTween # None
    /\ lineProp' = heroTween
    /\ opacity' = [i \in Lines |-> HeroTweenMaterial(opacity[i], heroTween)]
    /\ heroTween' = None
    /\ UNCHANGED <<doc, window, sceneVars, tween, hold, cycle, cycleStart, pending,
                   resizeVars,
                   rotationVars, renderVars, cardVars>>
    /\ UNCHANGED <<geoVars, zoneVars, sectionVars>>

Remove(seq, k) == SubSeq(seq, 1, k - 1) \o SubSeq(seq, k + 1, Len(seq))

\* a scroll-started tween of card c completes (it has no onComplete)
CardTweenComplete ==
    /\ \E c \in Cards : \E k \in 1 .. Len(inflight[c]) :
        /\ inflight' = [inflight EXCEPT ![c] = Remove(inflight[c], k)]
        /\ pose' = [pose EXCEPT ![c] = TweenPose(inflight[c][k], c)]
        /\ completed' = [completed EXCEPT ![c] = LastTwo(Append(completed[c], inflight[c][k]))]
    /\ UNCHANGED <<doc, window, sceneVars, lifecycleVars, resizeVars, rotationVars,
                   renderVars, heroVars, animating>>
    /\ UNCHANGED <<geoVars, zoneVars, sectionVars>>


\* --------------------------------------------------------------- setupLines
\* pi in ten-millionths: Math.sin and Math.cos are the sine and the cosine of
\* the number they are given, and Math.PI (Pi above) is not exactly pi
RealPi == 31415927

\* fixed-point product, both factors in ten-millionths
MulF(a, b) ==
    LET a1 == a \div 1000
        a0 == a % 1000
        b1 == b \div 1000
        b0 == b % 1000
    IN  ((a1 * b1) \div 10) + (((a1 * b0) + (a0 * b1)) \div 10000)

\* sine and cosine on [0, pi / 2], angle and value in ten-millionths
SinQ(x) ==
    LET x2 == MulF(x, x)
        t6 == 10000000 - (x2 \div 156)
        t5 == 10000000 - MulF(x2 \div 110, t6)
        t4 == 10000000 - MulF(x2 \div 72, t5)
        t3 == 10000000 - MulF(x2 \div 42, t4)
        t2 == 10000000 - MulF(x2 \div 20, t3)
        t1 == 10000000 - MulF(x2 \div 6, t2)
    IN  MulF(x, t1)

CosQ(x) ==
    LET x2 == MulF(x, x)
        t7 == 10000000 - (x2 \div 182)
        t6 == 10000000 - MulF(x2 \div 132, t7)
        t5 == 10000000 - MulF(x2 \div 90, t6)
        t4 == 10000000 - MulF(x2 \div 56, t5)
        t3 == 10000000 - MulF(x2 \div 30, t4)
        t2 == 10000000 - MulF(x2 \div 12, t3)
    IN  10000000 - MulF(x2 \div 2, t2)

\* Math.sin and Math.cos of an angle in [0, 2 * Math.PI] given in
\* ten-thousandths; the value is in ten-millionths
Sin(a) ==
    LET af  == a * 1000
        r1  == IF af > 2 * RealPi THEN af - (2 * RealPi) ELSE af
        neg == r1 > RealPi
        r2  == IF neg THEN r1 - RealPi ELSE r1
        q   == IF r2 > RealPi \div 2 THEN RealPi - r2 ELSE r2
    IN  IF neg THEN 0 - SinQ(q) ELSE SinQ(q)

Cos(a) ==
    LET af  == a * 1000
        r1  == IF af > 2 * RealPi THEN af - (2 * RealPi) ELSE af
        neg == r1 > RealPi
        r2  == IF neg THEN r1 - RealPi ELSE r1
        v   == IF r2 > RealPi \div 2 THEN 0 - CosQ(RealPi - r2) ELSE CosQ(r2)
    IN  IF neg THEN 0 - v ELSE v

Abs(x) == IF x < 0 THEN 0 - x ELSE x

\* Math.acos on [-1, 1], argument and angle in ten-thousandths: the angle of
\* [0, Math.PI] whose cosine is nearest c, by bisection; Math.acos(-1) is Math.PI
RECURSIVE AcosSearch(_, _, _)
AcosSearch(lo, hi, c) ==
    IF hi - lo <= 1
    THEN IF Abs(Cos(lo) - (c * 1000)) <= Abs(Cos(hi) - (c * 1000)) THEN lo ELSE hi
    ELSE LET mid == (lo + hi) \div 2
         IN  IF Cos(mid) > c * 1000 THEN AcosSearch(mid, hi, c)
             ELSE AcosSearch(lo, mid, c)

Acos(c) ==
    IF c <= 0 - 10000 THEN Pi
    ELSE IF c >= 10000 THEN 0
    ELSE AcosSearch(0, Pi, c)

\* -1 + (2 * i) / this.lineCount, in ten-thousandths
LineCosine_flipped(i, n) == 10000 - ((2 * i * 10000) \div n)
LineCosine(i, n) == (0 - 10000) + ((2 * i * 10000) \div n)

\* phi = Math.acos(-1 + (2 * i) / this.lineCount)
Phi(i, n) == Acos(LineCosine(i, n))

\* theta = (j / segmentCount) * Math.PI * 2
Theta_frozen(j) == 0
Theta(j) == (j * 2 * Pi) \div segmentCount

\* new THREE.Vector3(x, y, z) of segment j, in ten-thousandths
Point_squashed(radius, phi, theta) ==
    <<(radius * (MulF(Sin(phi), Cos(theta)) \div 10)) \div 100,
      (radius * (MulF(Sin(phi), Sin(theta)) \div 10)) \div 100,
      (radius * (Cos(phi) \div 10)) \div 200>>
Point(radius, phi, theta) ==
    <<(radius * (MulF(Sin(phi), Cos(theta)) \div 10)) \div 100,
      (radius * (MulF(Sin(phi), Sin(theta)) \div 10)) \div 100,
      (radius * (Cos(phi) \div 10)) \div 100>>

\* the Math.random() values of one pass of the outer loop, in call order:
\* the radius draw, then the draws of line.rotation.x, .y and .z
PassDraws == {<<r, x, 99 - x, x>> : r \in RandomDraws, x \in RandomDraws}

\* the draw the radius is made from: the first Math.random() call of the pass
RadiusDraw_rotation(draws) == draws[2]
RadiusDraw(draws) == draws[1]

\* radius = 120 + Math.random() * 100
Radius(draws) == 120 + RadiusDraw(draws)

\* j <= segmentCount
SegmentLoop_open(j) == j < segmentCount
SegmentLoop(j) == j <= segmentCount

\* two runs of setupLines start on the same lineCount; their random sources
\* agree on the radius draw of the pass
GeomInit ==
    /\ ProgramInit
    /\ doc = [canvas |-> TRUE, hero |-> TRUE, cards |-> 0, broken |-> None,
             content |-> None]
    /\ geoN \in 1 .. MaxLineCount
    /\ geoI = 0 /\ geoJ = 0
    /\ geoDraws \in PassDraws
    /\ geoDraws2 \in {d \in PassDraws : d[1] = geoDraws[1]}
    /\ geoRadius = Radius(geoDraws)
    /\ geoRadius2 = Radius(geoDraws2)
    /\ geoPhi = [i \in 0 .. (MaxLineCount - 1) |-> None]
    /\ geoPoints = <<>>
    /\ geoPoints2 = <<>>

programVars == <<doc, window, sceneVars, lifecycleVars, resizeVars, rotationVars,
                 renderVars, heroVars, cardVars, sectionVars>>

\* one pass of the inner loop: theta, phi and the point of segment j, in both runs
SetupLinesSegment ==
    /\ geoI < geoN
    /\ SegmentLoop(geoJ)
    /\ LET theta == Theta(geoJ)
           phi == Phi(geoI, geoN)
       IN  /\ geoPhi' = [geoPhi EXCEPT ![geoI] = phi]
           /\ geoPoints' = Append(geoPoints, Point(geoRadius, phi, theta))
           /\ geoPoints2' = Append(geoPoints2, Point(geoRadius2, phi, theta))
    /\ geoJ' = geoJ + 1
    /\ UNCHANGED <<geoN, geoI, geoDraws, geoRadius, geoDraws2, geoRadius2, programVars, zoneVars>>

\* the rest of one pass of the outer loop: the line is built from the points,
\* rotated by the rotation draws and added, and the next pass draws its radius
SetupLinesLine ==
    /\ geoI < geoN
    /\ ~SegmentLoop(geoJ)
    /\ geoI' = geoI + 1
    /\ geoJ' = 0
    /\ geoPoints' = <<>>
    /\ geoPoints2' = <<>>
    /\ \E d \in PassDraws : \E d2 \in {e \in PassDraws : e[1] = d[1]} :
        /\ geoDraws' = d
        /\ geoDraws2' = d2
        /\ geoRadius' = Radius(d)
        /\ geoRadius2' = Radius(d2)
    /\ UNCHANGED <<geoN, geoPhi, programVars, zoneVars>>

\* ------------------------------------------------- the middle-zone test
\* bounding boxes and viewport heights the test is evaluated on
ZoneYs == (0 - 1) .. MaxY
ZoneRects == {r \in [top : ZoneYs, bottom : ZoneYs] : r.top <= r.bottom}
ZoneHeights == {6, 7, 9}

\* the card scroll handler up to its test: it reads the card's bounding box
\* and window.innerHeight and computes isInMiddleZone
CardZoneTest ==
    /\ \E rect \in ZoneRects : \E h \in ZoneHeights :
        /\ zoneRect' = rect
        /\ zoneH' = h
        /\ zoneResult' = <<isInMiddleZone(rect, h)>>
    /\ UNCHANGED <<programVars, geoVars>>

\* a scroll notification as the sections' callbacks handle it: each reads its
\* section's bounding box and window.innerHeight and adds the class 'visible'
SectionScroll ==
    /\ sectionHandlers # {}
    /\ \E rects \in [Sections -> SectionRects] :
        /\ sectionRect' = [s \in Sections |->
                              IF s \in sectionHandlers THEN rects[s] ELSE sectionRect[s]]
        /\ visible' = visible \cup {s \in sectionHandlers : SectionInView(rects[s], window.h)}
    /\ sectionH' = window.h
    /\ UNCHANGED <<doc, window, sceneVars, lifecycleVars, resizeVars, rotationVars,
                   renderVars, heroVars, cardVars, sectionHandlers>>
    /\ UNCHANGED <<geoVars, zoneVars>>

\* -------------------------------------------------------- specifications
Next ==
    \/ DOMContentLoaded
    \/ LifecycleTick
    \/ Resize
    \/ TimerTick
    \/ onResize
    \/ MouseMove
    \/ RotationTick
    \/ render
    \/ Scroll
    \/ HeroTick
    \/ CardTweenComplete
    \/ SectionScroll

\* the whole page
Spec == Init /\ [][Next]_vars

\* a page without project cards: the lines, the hero and the window events
EventsInit == Init /\ doc.cards = 0
EventsNext ==
    \/ DOMContentLoaded
    \/ LifecycleTick
    \/ Resize
    \/ MouseMove
    \/ render
    \/ Scroll
    \/ HeroTick
EventsSpec == EventsInit /\ [][EventsNext]_vars

\* the lines' lifecycle and the scroll handlers that tween the lines
LifecycleNext ==
    \/ DOMContentLoaded
    \/ LifecycleTick
    \/ Scroll
    \/ HeroTick
LifecycleSpec == EventsInit /\ [][LifecycleNext]_vars
LifecycleFair == LifecycleSpec /\ WF_vars(LifecycleTick)

\* the window and the debounced resize listener
ResizeNext ==
    \/ DOMContentLoaded
    \/ Resize
    \/ TimerTick
    \/ onResize
ResizeSpec == EventsInit /\ [][ResizeNext]_vars
ResizeFair == ResizeSpec /\ WF_vars(TimerTick) /\ WF_vars(onResize)

\* the sections' scroll callbacks and the window they measure against
SectionsNext ==
    \/ DOMContentLoaded
    \/ Resize
    \/ SectionScroll
SectionsSpec == EventsInit /\ [][SectionsNext]_vars

\* a page with a canvas, a hero and MaxCards cards, any of which may lack its
\* title or its content element: construction, then the events and frames
\* that reach what the constructor has set up
SetupInit == Init /\ doc.canvas /\ doc.hero /\ doc.cards = MaxCards
SetupNext ==
    \/ DOMContentLoaded
    \/ LifecycleTick
    \/ Resize
    \/ MouseMove
    \/ render
SetupSpec == SetupInit /\ [][SetupNext]_vars

\* the project cards and the scroll handlers, on pages whose cards all have
\* their content element
CardsInit == Init /\ doc.content = None
CardsNext ==
    \/ DOMContentLoaded
    \/ Scroll
    \/ HeroTick
    \/ CardTweenComplete
CardsSpec == CardsInit /\ [][CardsNext]_vars

\* every action but the lifecycle frames: the lines stay in their first frame
WindowNext ==
    \/ DOMContentLoaded
    \/ Resize
    \/ TimerTick
    \/ onResize
    \/ MouseMove
    \/ RotationTick
    \/ render
    \/ Scroll
    \/ HeroTick
WindowSpec == EventsInit /\ [][WindowNext]_vars

\* ----------------------------------------------------------------- claims

\* C1 (as claimed): while a scroll-started transform of a card is in flight, a
\* further scroll notification starts no second transform on that card
C1_NoSecondTransform == \A c \in Cards : Len(inflight[c]) <= 1

PhaseOrder == {<<"None", "FadingIn">>, <<"FadingIn", "Holding">>,
               <<"Holding", "FadingOut">>, <<"FadingOut", "FadingIn">>}

\* one step of line i, as far as its lifecycle is concerned
C3_PhaseStep(i) ==
    /\ Phase(i)' # Phase(i) => <<Phase(i), Phase(i)'>> \in PhaseOrder
    /\ tween[i].kind = "in" /\ tween'[i].kind = "out" =>
            opacity'[i] = VisibleOpacity /\ tween[i].t + FrameMs >= FadeMs
    /\ tween[i].kind = "out" /\ tween'[i] # tween[i] /\ tween'[i].kind = "in" =>
            opacity'[i] = 0 /\ tween[i].delay = 0 /\ tween[i].t + FrameMs >= FadeMs
    /\ tween[i].kind = "out" /\ tween'[i].kind = "out" => tween'[i].delay <= tween[i].delay

\* C3: a line's phase changes only along FadingIn -> Holding -> FadingOut ->
\* FadingIn, the fade-out tween appears only when the fade-in has completed
\* (opacity 0.7), the next fade-in only when the fade-out has completed
\* (opacity 0), and a line that has a phase never loses it
C3_PhaseOrder == [][\A i \in Lines : C3_PhaseStep(i)]_vars

C3_Witness == \E i \in children : cycle[i] = 2 /\ Phase(i) = "Holding"

\* C4: with the lifecycle frames scheduled fairly, every line is at opacity 0
\* and at opacity 0.7 again and again
C4_CyclesForever ==
    \A i \in Lines :
        /\ []<>(children # {} => opacity[i] = 0)
        /\ []<>(children # {} => opacity[i] = VisibleOpacity)

C4_Witness == children # {} /\ \A i \in children : cycle[i] = 2 /\ opacity[i] = VisibleOpacity

\* C5: every line's material opacity is in [0, 0.7], whatever lifecycle
\* frames, scroll, mousemove, resize and render events have happened
C5_OpacityRange == \A i \in Lines : 0 <= opacity[i] /\ opacity[i] <= VisibleOpacity

C5_Witness ==
    /\ lineProp = 0 /\ heroTween = VisibleOpacity
    /\ rotTween # NoRotTween /\ resizeTimeout # None /\ frames >= 2
    /\ \E i \in children : cycle[i] = 2 /\ 0 < opacity[i] /\ opacity[i] < VisibleOpacity

\* C6: within a phase the opacity never moves away from the phase's target:
\* it does not fall while fading in, not change while holding, not rise while
\* fading out; the frame in which the hold ends already belongs to the
\* fade-out for the time left over after the hold
C6_TowardTarget ==
    [][\A i \in Lines :
        /\ Phase(i) = "FadingIn" => opacity'[i] >= opacity[i]
        /\ Phase(i) = "Holding" /\ Phase(i)' = "Holding" => opacity'[i] = opacity[i]
        /\ Phase(i) = "Holding" /\ Phase(i)' # "Holding" =>
                Phase(i)' = "FadingOut" /\ opacity'[i] <= opacity[i]
        /\ Phase(i) = "FadingOut" => opacity'[i] <= opacity[i]]_vars

C6_Witness ==
    \E i \in children : Phase(i) = "FadingOut" /\ 0 < opacity[i] /\ opacity[i] < VisibleOpacity

\* one step, as far as the calls of onResize are concerned
C7_CallStep ==
    /\ loaded /\ (resizeCalls' > resizeCalls \/ camera' # camera \/ renderer' # renderer) =>
            /\ sinceResize >= DebounceMs /\ sinceResize' = sinceResize
            /\ resizeCalls = 0 /\ resizeCalls' = 1
    /\ sinceResize' = 0 => resizeCalls' = 0 /\ camera' = camera /\ renderer' = renderer

CameraMatchesWindow ==
    /\ camera.fov = Fov(window.h)
    /\ camera.aspect = Aspect(window)
    /\ renderer.w = window.w /\ renderer.h = window.h

\* C8: once the resize events stop, the camera's field of view is
\* 2 * atan(innerHeight / 2 / 1000) in degrees for the current window, its
\* aspect the current innerWidth / innerHeight and the renderer's size the
\* current window's
C8_CameraFollowsWindow ==
    \/ []<><<Resize>>_vars
    \/ <>[](scene => CameraMatchesWindow)

C8_Witness ==
    /\ scene /\ window.h = 900 /\ CameraMatchesWindow
    /\ camera.fov # Fov(InitialWindow.h)

\* C9: without a canvas, construction logs one error and creates nothing:
\* no scene, camera, renderer or lines, no listener, no tween, no render
\* loop, no timer, and no error from a later event
C9_AbortsWithoutCanvas ==
    loaded /\ ~doc.canvas =>
        /\ errorLog = <<"canvas not found">>
        /\ ~container /\ ~scene /\ camera = NoCamera /\ renderer = NoRenderer
        /\ children = {} /\ listeners = {} /\ ~heroHandler /\ cardHandlers = {}
        /\ \A i \in Lines : tween[i] = NoTween /\ cycle[i] = 0
        /\ rafPending = 0 /\ frames = 0 /\ rotation = <<0, 0>>
        /\ resizeTimeout = None /\ rotTween = NoRotTween /\ heroTween = None

C9_Witness ==
    /\ loaded /\ ~doc.canvas /\ doc.hero
    /\ window # InitialWindow /\ sinceResize = DebounceMs

\* the loops of setupLines, run on every lineCount up to MaxLineCount
GeomNext ==
    \/ SetupLinesSegment
    \/ SetupLinesLine
GeomSpec == GeomInit /\ [][GeomNext]_vars

\* the lines whose phi has been computed
PhiDone == {i \in 0 .. (MaxLineCount - 1) : geoPhi[i] # None}

\* C10 (as claimed): phi is a non-decreasing function of the line index
C10_PhiNonDecreasing ==
    \A i \in PhiDone : \A k \in PhiDone : i <= k => geoPhi[i] <= geoPhi[k]

\* C10 (amended): phi is a non-increasing, in fact strictly decreasing,
\* function of the line index, from pi at index 0
C10_PhiDecreasing ==
    /\ \A i \in PhiDone : \A k \in PhiDone : i < k => geoPhi[i] > geoPhi[k]
    /\ 0 \in PhiDone => geoPhi[0] = Pi

C10_Witness == geoN = 10 /\ geoI = 10 /\ PhiDone = 0 .. 9

\* the squares of the coordinates of p, summed, in ten-thousandths
Norm2(p) ==
    ((p[1] \div 100) * (p[1] \div 100)) + ((p[2] \div 100) * (p[2] \div 100))
        + ((p[3] \div 100) * (p[3] \div 100))

\* the square of radius, in ten-thousandths
Radius2(radius) == (radius * 100) * (radius * 100)

\* the line of pass i has all its points
LineComplete == geoI < geoN /\ ~SegmentLoop(geoJ)

\* C11 (as claimed): every line has segmentCount + 1 points, its radius is
\* drawn once, and x^2 + y^2 + z^2 = radius^2 for every point, exactly
C11_OnSphereExactly ==
    /\ LineComplete => Len(geoPoints) = segmentCount + 1
    /\ \A k \in 1 .. Len(geoPoints) : Norm2(geoPoints[k]) = Radius2(geoRadius)

\* C11 (amended): every line has segmentCount + 1 points, its radius is the
\* one made from the single draw of its pass, and x^2 + y^2 + z^2 is
\* radius^2 up to the rounding of the arithmetic (here 1 part in 2000)
C11_OnSphere ==
    /\ LineComplete => Len(geoPoints) = segmentCount + 1
    /\ geoI < geoN => geoRadius = 120 + geoDraws[1] /\ Len(geoPoints) = geoJ
    /\ \A k \in 1 .. Len(geoPoints) :
        Abs(Norm2(geoPoints[k]) - Radius2(geoRadius)) <= Radius2(geoRadius) \div 2000

C11_Witness ==
    /\ LineComplete /\ geoN = 3 /\ geoI = 2 /\ geoRadius = 219
    /\ \E k \in 1 .. Len(geoPoints) : Norm2(geoPoints[k]) # Radius2(geoRadius)

C13_ClosedLoop ==
    LineComplete => geoPoints[Len(geoPoints)] = geoPoints[1]

\* C13 (amended): every line has segmentCount + 1 points and its last point
\* is its first point up to the rounding of 2 * Math.PI (here each coordinate
\* within 2 parts in 100000 of the radius)
C13_ClosedLoopRounded ==
    LineComplete =>
        /\ Len(geoPoints) = segmentCount + 1
        /\ \A c \in 1 .. 3 :
            Abs(geoPoints[Len(geoPoints)][c] - geoPoints[1][c]) <= geoRadius \div 5

C13_Witness ==
    /\ LineComplete /\ geoI >= 1 /\ Len(geoPoints) = segmentCount + 1
    /\ geoPoints[Len(geoPoints)] # geoPoints[1]
    /\ Abs(geoPoints[2][2] - geoPoints[1][2]) > geoRadius

\* the middle-zone test alone, on every bounding box and height of the bounds
ZoneInit == Init /\ doc = [canvas |-> TRUE, hero |-> TRUE, cards |-> 1, broken |-> None,
                         content |-> None]
ZoneNext == CardZoneTest
ZoneSpec == ZoneInit /\ [][ZoneNext]_vars

\* C14: for top <= bottom, isInMiddleZone is true exactly when [top, bottom]
\* meets the band [H / 3, 2 H / 3], that is top <= 2 H / 3 and bottom >= H / 3
C14_ZoneIsIntersection ==
    zoneResult # <<>> =>
        (zoneResult[1] <=> (3 * zoneRect.top <= 2 * zoneH /\ 3 * zoneRect.bottom >= zoneH))

C14_Witness ==
    /\ zoneResult = <<TRUE>>
    /\ 3 * zoneRect.top < zoneH /\ 3 * zoneRect.bottom > 2 * zoneH
    /\ zoneH = 7

\* a fade of line i that has started
FadeStarted(i, kind) == tween[i].kind = kind /\ tween[i].delay = 0 /\ tween[i].t > 0

C16_OneRenderPending ==
    /\ [](rafPending = IF frames >= 1 THEN 1 ELSE 0)
    /\ [][frames' # frames =>
            /\ frames' = frames + 1
            /\ rotation' = <<rotation[1] + 1, rotation[2] + 1>>
            /\ rafPending' = 1]_vars

C16_Witness ==
    /\ frames >= 2 /\ rafPending = 1
    /\ resizeCalls = 1 /\ lineProp = HiddenOpacity
    /\ rotTween = NoRotTween /\ rotation # <<frames, frames>>

\* one step of line i, as far as the hold of its cycle is concerned
C17_HoldStep(i) ==
    /\ tween[i].kind = "in" /\ tween'[i].kind = "out" =>
            /\ tween[i].t + FrameMs >= FadeMs
            /\ tween'[i].delay = hold[i] /\ hold'[i] = hold[i] /\ cycle'[i] = cycle[i]
    /\ tween[i].kind = "in" /\ tween'[i].kind = "in" /\ tween[i].delay = 0 /\ tween'[i] # tween[i] =>
            tween'[i].t = tween[i].t + FrameMs /\ tween'[i].t < FadeMs
    /\ Phase(i) = "Holding" /\ Phase(i)' = "Holding" /\ tween'[i] # tween[i] =>
            tween'[i].delay = tween[i].delay - FrameMs /\ hold'[i] = hold[i]
    /\ Phase(i) = "Holding" /\ Phase(i)' = "FadingOut" =>
            /\ tween[i].delay <= FrameMs
            /\ tween'[i].t = FrameMs - tween[i].delay
    /\ FadeStarted(i, "out") /\ FadeStarted(i, "out")' /\ tween'[i] # tween[i] =>
            tween'[i].t = tween[i].t + FrameMs /\ tween'[i].t < FadeMs
    /\ tween[i].kind = "out" /\ tween'[i].kind = "in" /\ tween'[i] # tween[i] =>
            /\ tween[i].delay = 0 /\ tween[i].t + FrameMs >= FadeMs
            /\ hold'[i] \in HoldChoices

\* C17: every cycle has a hold duration in [5, 10) s drawn for it; the
\* fade-out of the cycle is created when the fade-in of the same cycle
\* completes, with that hold as its delay, and begins when the delay has run
\* down frame by frame; both fades advance by the frame time up to 2.5 s
C17_HoldThenFadeOut ==
    /\ [](\A i \in children : 5000 <= hold[i] /\ hold[i] < 10000)
    /\ [][\A i \in Lines : C17_HoldStep(i)]_vars

C17_Witness ==
    \E i \in children : \E k \in children :
        /\ cycle[i] = 2 /\ cycle[k] = 2 /\ hold[i] # hold[k]
        /\ Phase(i) = "FadingOut" /\ Phase(k) = "Holding"

\* the time since line i's current animateLineLifecycle call, while its
\* fade-in is pending or running
SinceCall(i) ==
    IF tween[i].delay > 0 THEN (i * StaggerMs) - tween[i].delay
    ELSE (i * StaggerMs) + tween[i].t

\* one step of line i, as far as the delay of its fade-in is concerned
C18_DelayStep(i) ==
    /\ cycle'[i] # cycle[i] \/ (tween[i].kind = "out" /\ tween'[i].kind = "in") =>
            tween'[i].kind = "in" /\ tween'[i].delay = i * StaggerMs /\ tween'[i].t = 0
    /\ tween[i].kind = "in" /\ tween[i].delay > 0 /\ tween'[i] # tween[i] =>
            /\ tween'[i].kind = "in"
            /\ \/ tween'[i].delay = tween[i].delay - FrameMs /\ tween'[i].t = 0
               \/ /\ tween[i].delay <= FrameMs /\ tween'[i].delay = 0
                  /\ tween'[i].t = FrameMs - tween[i].delay

\* C18: every animateLineLifecycle call, the first and every restart, delays
\* the fade-in of line i by i * 0.5 s, and in the first cycle, whose calls
\* are made together, a line of lower index is always further into its
\* fade-in by 0.5 s per index
C18_StaggeredFadeIn ==
    /\ [][\A i \in Lines : C18_DelayStep(i)]_vars
    /\ [](\A i \in children : \A k \in children :
            (/\ i < k /\ cycle[i] = 1 /\ cycle[k] = 1
             /\ tween[i].kind = "in" /\ tween[k].kind = "in")
            => /\ SinceCall(i) = SinceCall(k)
               /\ tween[k].delay = 0 /\ tween[k].t > 0 =>
                    tween[i].delay = 0 /\ tween[i].t = tween[k].t + ((k - i) * StaggerMs))

C18_Witness ==
    \E i \in children : i >= 1 /\ cycle[i] = 2 /\ tween[i].kind = "in"
                        /\ tween[i].delay = i * StaggerMs

\* C20 (as claimed): once the tween started by a scroll notification that
\* found the hero above the viewport has run, and while no later notification
\* has found the hero in view, every line's material opacity is 0
C20_HiddenWhileHeroAbove ==
    lineProp = HiddenOpacity /\ heroTween = None =>
        \A i \in children : opacity[i] = HiddenOpacity

\* C21: the hide target of every card equals the state gsap.set gave it at
\* setup, so a card whose last completed scroll tween is a hide (or that has
\* completed none) is in its initial state, even after a completed reveal;
\* and a card whose last completed scroll tween is a reveal is at x 0,
\* opacity 1, scale 1, whichever card and whichever notification started it
C21_HideRestoresInitial ==
    /\ \A c \in Cards : HiddenPose(c) = InitialPose(c)
    /\ \A c \in cardHandlers :
        LET n == Len(completed[c])
        IN  /\ n = 0 => pose[c] = InitialPose(c)
            /\ n > 0 /\ completed[c][n] = "hide" => pose[c] = InitialPose(c)
            /\ n > 0 /\ completed[c][n] = "reveal" =>
                    pose[c] = [x |-> 0, opacity |-> 100, scale |-> 100]

\* an odd card has completed a reveal and then a hide, and is back at x = 100
C21_Witness ==
    \E c \in cardHandlers :
        /\ c % 2 = 1
        /\ completed[c] = <<"reveal", "hide">>
        /\ pose[c] = InitialPose(c) /\ pose[c].x = 100

\* one step, as far as the class 'visible' of section s is concerned: the
\* class is never removed, and it is added only by a callback that found the
\* section's box with top < 0.8 * innerHeight and bottom > 0
C22_VisibleStep(s) ==
    /\ s \in visible => s \in visible'
    /\ s \notin visible /\ s \in visible' =>
            /\ s \in sectionHandlers
            /\ sectionH' = window.h
            /\ 10 * sectionRect'[s].top < 8 * sectionH'
            /\ sectionRect'[s].bottom > 0

\* C22: a section gets the class 'visible' at a scroll notification exactly
\* when its bounding box has top < 0.8 * innerHeight and bottom > 0 (a section
\* whose callback last read such a box has the class, and no section gets it
\* otherwise), and no step ever removes the class from a section
C22_VisibleOneShot ==
    /\ [][\A s \in Sections : C22_VisibleStep(s)]_vars
    /\ [](\A s \in sectionHandlers :
            (/\ sectionH # None
             /\ 10 * sectionRect[s].top < 8 * sectionH
             /\ sectionRect[s].bottom > 0) => s \in visible)

\* a section has the class although the box its callback read last is not in
\* view (top = 0.8 * innerHeight), and another section never had it
C22_Witness ==
    \E s \in visible : \E u \in sectionHandlers :
        /\ sectionH = 600 /\ sectionRect[s].top = 480
        /\ u \notin visible /\ sectionRect[u].bottom = 0

\* C23 (as claimed): on a page with a canvas where some card lacks its
\* .project-title or its .project-content, construction fails: the failure is
\* logged and no frame is ever rendered
C23_AnyMissingChildAborts ==
    loaded /\ doc.canvas /\ (doc.broken # None \/ doc.content # None) =>
        /\ errorLog = <<"failed to initialize">>
        /\ frames = 0 /\ rafPending = 0

\* C23: the constructor's steps run in order with render() last. On a page
\* with a canvas where some card has no .project-title, setupScrollAnimations
\* throws: the handler logs the failure, render() is never called and no
\* frame is rendered or pending, while scene, camera, renderer, the resize and
\* mousemove listeners (a resize still arms the debounce timer), the lines
\* with their rotation and lifecycle tweens, and the scroll handlers of the
\* cards before the faulty one all stay. On any other page with a canvas,
\* including one where a card has no .project-content, nothing is logged and
\* the first frame is rendered during construction
C23_FailedSetupKeepsEarlierSteps ==
    loaded /\ doc.canvas =>
        IF doc.broken # None THEN
            /\ errorLog = <<"failed to initialize">>
            /\ frames = 0 /\ rafPending = 0
            /\ scene /\ camera # NoCamera /\ renderer # NoRenderer
            /\ listeners = {"resize", "mousemove"}
            /\ sinceResize = 0 => resizeTimeout = DebounceMs
            /\ children = Lines /\ spinning = Lines
            /\ \A i \in Lines : tween[i].kind \in {"in", "out"}
            /\ heroHandler /\ sectionHandlers = Sections
            /\ cardHandlers = {c \in Cards : c < doc.broken}
        ELSE
            /\ errorLog = <<>>
            /\ frames >= 1 /\ rafPending = 1

\* after a failed construction (the second card has no title) the lifecycle
\* of a line has reached its second cycle, a mousemove has started its tween
\* and a resize has armed the debounce timer
C23_Witness ==
    /\ loaded /\ doc.broken = 1 /\ cardHandlers = {0}
    /\ errorLog = <<"failed to initialize">> /\ frames = 0
    /\ \E i \in children : cycle[i] = 2
    /\ rotTween # NoRotTween
    /\ resizeTimeout = DebounceMs /\ window # InitialWindow

\* one step, as far as lines i and k are concerned: while line k waits (its
\* pending tween has more than a frame of delay left) its phase and opacity
\* stay, whatever line i's chain does in the step
C24_OtherLineStep(i, k) ==
    i # k /\ tween[k].kind # "none" /\ tween[k].delay > FrameMs =>
        /\ opacity'[k] = opacity[k]
        /\ Phase(k)' = Phase(k)
        /\ pending'[k] = pending[k]

\* C24: every line has exactly one lifecycle tween pending, its fade-in or
\* its fade-out: setupAnimations calls animateLineLifecycle once per line,
\* each completion replaces the completed tween by one new one, and a step of
\* one line's chain leaves the phase and opacity of a waiting line unchanged
C24_OnePendingTween ==
    /\ [](\A i \in children : pending[i] = 1 /\ tween[i].kind \in {"in", "out"})
    /\ [][\A i \in Lines : \A k \in Lines : C24_OtherLineStep(i, k)]_vars

\* line i has just been restarted by the completion of its own fade-out while
\* line k, still in its first cycle, holds
C24_Witness ==
    \E i \in children : \E k \in children :
        /\ i # k
        /\ cycle[i] = 2 /\ tween[i].kind = "in" /\ tween[i].t = 0
        /\ tween[i].delay = i * StaggerMs
        /\ cycle[k] = 1 /\ Phase(k) = "Holding"
        /\ pending[i] = 1 /\ pending[k] = 1

\* x^2 + y^2 of p, in the unit of Norm2
Circle2(p) == ((p[1] \div 100) * (p[1] \div 100)) + ((p[2] \div 100) * (p[2] \div 100))

\* radius^2 * (1 - (-1 + 2 * i / N)^2), in the unit of Norm2
LatitudeRadius2(radius, i, n) ==
    (Radius2(radius) \div 10000) *
        ((100000000 - (LineCosine(i, n) * LineCosine(i, n))) \div 10000)

\* C25 (as claimed): every point of line i has x^2 + y^2 equal to
\* radius^2 * (1 - (-1 + 2 * i / N)^2); all points of line 0 are the pole
\* (0, 0, -radius); consecutive points of every other line are distinct
C25_PoleExactly ==
    /\ \A k \in 1 .. Len(geoPoints) :
        Circle2(geoPoints[k]) = LatitudeRadius2(geoRadius, geoI, geoN)
    /\ geoI = 0 =>
        \A k \in 1 .. Len(geoPoints) : geoPoints[k] = <<0, 0, 0 - (geoRadius * 10000)>>
    /\ geoI > 0 =>
        \A k \in 1 .. (Len(geoPoints) - 1) : geoPoints[k] # geoPoints[k + 1]

\* C25 (amended): radius^2 * (1 - (-1 + 2 * i / N)^2) is zero exactly for
\* i = 0, and x^2 + y^2 of every point of line i is that value up to the
\* rounding of the arithmetic (here 1 part in 2000 of radius^2); the points
\* of line 0 have z = -radius and x, y within rounding of 0 (here 2 parts in
\* 100000 of the radius), and consecutive points of every line with
\* 0 < i < N are distinct
C25_PoleUpToRounding ==
    geoI < geoN =>
        /\ (LatitudeRadius2(geoRadius, geoI, geoN) = 0) <=> (geoI = 0)
        /\ \A k \in 1 .. Len(geoPoints) :
            Abs(Circle2(geoPoints[k]) - LatitudeRadius2(geoRadius, geoI, geoN))
                <= Radius2(geoRadius) \div 2000
        /\ geoI = 0 =>
            \A k \in 1 .. Len(geoPoints) :
                /\ geoPoints[k][3] = 0 - (geoRadius * 10000)
                /\ Abs(geoPoints[k][1]) <= geoRadius \div 5
                /\ Abs(geoPoints[k][2]) <= geoRadius \div 5
        /\ geoI > 0 =>
            \A k \in 1 .. (Len(geoPoints) - 1) : geoPoints[k] # geoPoints[k + 1]

\* line 0 of 10 is complete: its points are at z = -radius, and two of them
\* differ
C25_Witness ==
    /\ LineComplete /\ geoN = 10 /\ geoI = 0 /\ Len(geoPoints) = segmentCount + 1
    /\ \A k \in 1 .. Len(geoPoints) : geoPoints[k][3] = 0 - (geoRadius * 10000)
    /\ \E k \in 1 .. Len(geoPoints) : geoPoints[k] # geoPoints[1]

====
